---- MODULE Spec2Model ----
(***************************************************************************)
(* A model of elmes: the concurrency-bounded batch runner (elmes/run.py),  *)
(* the per-agent turn function (elmes/agent.py), the direction graph       *)
(* (elmes/directions.py), agent materialisation and prompt templating      *)
(* (elmes/agent.py, elmes/utils.py) and the task expander (elmes/utils.py).*)
(***************************************************************************)
EXTENDS Integers, Sequences, FiniteSets, TLC

\* ------------------------------------------------------------------------
\* Bounds of the model
\* ------------------------------------------------------------------------
\* largest number of task variants in CONFIG.tasks.variables
MaxTasks == 3
\* largest workers_num handed to run()
MaxWorkers == 2
\* CONFIG.globals.recursion_limit of the modelled configuration
RecursionLimit == 3

VARIABLES
    \* --- batch runner, elmes/run.py ---
    pc,           \* position of run(): build, gather, close, returned, raised, torn_down
    ntasks,       \* len(CONFIG.tasks.variables)
    workers_num,  \* argument of run()
    directions,   \* CONFIG.directions, the sequence of "A -> B" edges
    agents,       \* the list `agents` of run(): one compiled graph per variant
    conns,        \* CONFIG.context.conns
    sem,          \* value of the asyncio.Semaphore
    tasks,        \* the arun() tasks handed to gather
    store,        \* persistent checkpoint storage: handle -> thread id -> messages
    \* --- one agent's turn function, elmes/agent.py ---
    ag_name,      \* agent_name of the closure
    ag_prompt,    \* ac.prompt, the materialised seed prompt
    ag_state,     \* state["messages"] of the state passed to chatbot
    ag_input,     \* n_m, the input of the last m.invoke
    ag_out,       \* the "messages" list chatbot last returned
    ag_calls,     \* number of invocations of chatbot so far
    \* --- agent materialisation, elmes/agent.py and elmes/utils.py ---
    cfg_prompt,   \* CONFIG.agents: agent id -> its AgentConfig's prompt
    template0,    \* the prompt templates as loaded from the configuration
    task_vars,    \* CONFIG.tasks.variables, a list of variable maps
    mat,          \* number of variants materialised so far
    mat_pc,       \* "run", or "error" once a materialisation has raised
    seen,         \* variant -> agent id -> the seed prompt its chatbot read
    \* --- task expander, elmes/utils.py ---
    ex_mode,      \* tasks["mode"] as written in the configuration
    ex_content,   \* tasks["content"]
    ex_out,       \* the "variables" list extract returned
    ex_pc,        \* "call", "returned", "raised", then "loaded", "compiled", "running"
    ex_compiled,  \* number of graphs compiled from the loaded configuration
    ex_runs,      \* number of runs started from the loaded configuration
    \* ---- the prompt templater called on its own (src/elmes/utils.py)
    rp_prompt,    \* the prompt argument: [single |-> is it one prompt, ps |-> the prompt(s)]
    rp_map,       \* the prompt_map argument, a sequence of <<key, value>> in dict order
    rp_out,       \* the list replace_prompt returned
    rp_again,     \* the list replace_prompt returned for rp_out and the same map
    rp_pc,        \* "call", "returned", "again", or "raised"
    \* ---- one evaluation of a transcript (src/elmes/evaluation.py)
    ev_mode,      \* CONFIG.evaluation.format_mode
    ev_resp,      \* the content of the grader's last message, a sequence of tokens
    ev_out,       \* what evaluate returned, <<value>>, or <<>>
    ev_pc,        \* "call", "returned", or "raised"
    \* ---- the score table of a batch evaluation (src/elmes/cli.py, eval_logic.main)
    sc_n,         \* the number of transcript files found
    sc_k,         \* the number of metrics of the grading format
    sc_results,   \* what the eval_task of each file returns: a record or the empty record
    sc_avg,       \* the --avg/--no-avg flag
    sc_done,      \* <<index, result>> of the eval_tasks completed so far, in completion order
    sc_evals,     \* the list gather returned
    sc_csv,       \* the lines written to the score file, each a sequence of cells
    sc_pc,        \* "gather", "written", or "raised"
    \* ---- the evaluations of a batch (src/elmes/cli.py, eval_logic.eval_task)
    bt_outcome,   \* how evaluate ends for each transcript file
    bt_tasks,     \* each eval_task: [st, ret], st "pending", "returned" or "raised"
    bt_files,     \* the files for which a score file was written
    bt_pc,        \* "gather", "aggregate" (gather returned), or "aborted"
    \* ---- a model backend (src/backend/openai_backend.py, ollama_backend.py)
    bk_max,       \* self.max_retries
    bk_init,      \* self.initialized
    bk_pc,        \* "idle", or inside chat(): "loop" (before an attempt), "done" (after the loop)
    bk_op,        \* the method called last: "none", "chat" or "initialize"
    bk_calls,     \* the number of chat() and initialize() calls made so far
    bk_attempt,   \* the loop variable of the chat() in progress or ended last
    bk_sent,      \* the chat requests sent by that chat()
    bk_failed,    \* how many of them failed
    bk_sleeps,    \* the seconds slept by that chat(), one entry per time.sleep
    bk_out        \* how that chat() ended: "none", "returned", "init_error", "request_error"

runVars == <<pc, ntasks, workers_num, directions, agents, conns, sem, tasks, store>>
agVars == <<ag_name, ag_prompt, ag_state, ag_input, ag_out, ag_calls>>
matVars == <<cfg_prompt, template0, task_vars, mat, mat_pc, seen>>
exVars == <<ex_mode, ex_content, ex_out, ex_pc, ex_compiled, ex_runs>>
rpVars == <<rp_prompt, rp_map, rp_out, rp_again, rp_pc>>
evVars == <<ev_mode, ev_resp, ev_out, ev_pc>>
scVars == <<sc_n, sc_k, sc_results, sc_avg, sc_done, sc_evals, sc_csv, sc_pc>>
btVars == <<bt_outcome, bt_tasks, bt_files, bt_pc>>
bkVars ==
    <<bk_max, bk_init, bk_pc, bk_op, bk_calls, bk_attempt, bk_sent, bk_failed, bk_sleeps, bk_out>>

vars == <<runVars, agVars, matVars, exVars, rpVars, evVars, scVars, btVars, bkVars>>

\* ------------------------------------------------------------------------
\* Sentinels and small helpers
\* ------------------------------------------------------------------------
START == "START"
END == "END"
NoName == "None"

Range(s) == {s[i] : i \in DOMAIN s}

\* ------------------------------------------------------------------------
\* elmes/agent.py: the turn function chatbot(state)
\* ------------------------------------------------------------------------
\* A stored message is [name, type, content]; an entry of the model input is
\* [type, content], type being a seed role, "ai" (self) or "human" (other).

\* Rewrite with the comparison of agent.py:33 inverted
RewriteSwapped(agent_name, item) ==
    IF item.name # agent_name
    THEN [type |-> "ai", content |-> item.content]
    ELSE [type |-> "human", content |-> item.content]

\* agent.py:33-36, the body of the loop over state["messages"]
Rewrite(agent_name, item) ==
    IF item.name = agent_name
    THEN [type |-> "ai", content |-> item.content]
    ELSE [type |-> "human", content |-> item.content]

\* agent.py:27-38, the model input n_m
ChatbotInput(prompt, agent_name, messages) ==
    IF messages = <<>>
    THEN prompt
    ELSE prompt \o [i \in 1..Len(messages) |-> Rewrite(agent_name, messages[i])]

\* ChatbotReply without agent.py:40: the reply is not named after the agent
ChatbotReplyUnnamed(agent_name, reply) ==
    [name |-> NoName, type |-> "ai", content |-> reply]

\* agent.py:39-41, the returned message: the model's reply named after the agent
ChatbotReply(agent_name, reply) ==
    [name |-> agent_name, type |-> "ai", content |-> reply]

\* entity.py:10-11, the add_messages reducer of State.messages
AddMessages(left, right) == left \o right

\* ------------------------------------------------------------------------
\* elmes/directions.py: the direction graph
\* ------------------------------------------------------------------------
\* A direction "A -> B" is [src, dst, router]; router is TRUE for
\* "A -> router:<expr>", and dst then names the routing expression.
AgentIds == {"a", "b", "c"}

\* the (route, path_map) pair a routing expression evaluates to
PathMap == ("continue" :> "a") @@ ("end" :> END)
\* the labels a classifier may return; "bogus" is no key of the path map
Labels == {"continue", "end", "bogus"}

Linear ==
    << [src |-> START, dst |-> "a", router |-> FALSE],
       [src |-> "a", dst |-> "b", router |-> FALSE],
       [src |-> "b", dst |-> END, router |-> FALSE] >>

Routed ==
    << [src |-> START, dst |-> "a", router |-> FALSE],
       [src |-> "a", dst |-> "b", router |-> FALSE],
       [src |-> "b", dst |-> "r", router |-> TRUE] >>

\* "x" names no agent of the agent map
UnknownDst ==
    << [src |-> START, dst |-> "a", router |-> FALSE],
       [src |-> "a", dst |-> "x", router |-> FALSE],
       [src |-> "b", dst |-> END, router |-> FALSE] >>

UnknownSrc ==
    << [src |-> START, dst |-> "a", router |-> FALSE],
       [src |-> "a", dst |-> "b", router |-> FALSE],
       [src |-> "x", dst |-> END, router |-> FALSE] >>

DirectionConfigs == {Linear, Routed, UnknownDst, UnknownSrc}

\* directions.py:30-32, the graph before any edge: every agent is a node
EmptyGraph == [nodes |-> AgentIds, edges |-> {}, branches |-> {}]

\* directions.py:35-52, one iteration of the loop over the directions
AddDirection(graph, d) ==
    IF d.router
    THEN [graph EXCEPT !.branches = @ \cup {[src |-> d.src, path_map |-> PathMap]}]
    ELSE [graph EXCEPT !.edges = @ \cup {<<d.src, d.dst>>}]

RECURSIVE AddDirections(_, _)
\* directions.py:34-52, the loop over the directions
AddDirections(graph, dirs) ==
    IF dirs = <<>> THEN graph
    ELSE AddDirections(AddDirection(graph, Head(dirs)), Tail(dirs))

\* directions.py:20-55, the compiled graph
ApplyAgentDirection(dirs) == AddDirections(EmptyGraph, dirs)

\* BuildError looking at the target of an edge only
BuildErrorDstOnly(dirs) ==
    \E k \in 1..Len(dirs) :
        /\ ~dirs[k].router
        /\ dirs[k].dst \notin AgentIds \cup {END}

\* directions.py:44-55, the build raises: agent_map[end_node] (line 48) is a
\* KeyError for a target that is neither END nor an agent, and compile()
\* (line 55) rejects an edge starting at a node the graph does not have
BuildError(dirs) ==
    \E k \in 1..Len(dirs) :
        /\ ~dirs[k].router
        /\ \/ dirs[k].dst \notin AgentIds \cup {END}
           \/ dirs[k].src \notin AgentIds \cup {START}

\* the nodes that follow `node` when the classifier (if any) answers `label`:
\* the targets of its edges, and path_map[label] of its conditional edges
Successors(graph, node, label) ==
    {e[2] : e \in {x \in graph.edges : x[1] = node}}
    \cup {b.path_map[label] :
            b \in {x \in graph.branches : x.src = node /\ label \in DOMAIN x.path_map}}

\* a conditional edge of `node` whose path map lacks `label`
RoutingError(graph, node, label) ==
    \E b \in graph.branches : b.src = node /\ label \notin DOMAIN b.path_map

HasBranch(graph, node) == \E b \in graph.branches : b.src = node

\* ------------------------------------------------------------------------
\* elmes/run.py: run(workers_num)
\* ------------------------------------------------------------------------
\* run.py:39, the thread identifier every arun() passes to ainvoke
ThreadId == "0"
Threads == {ThreadId}

\* the storage handle opened for the k-th compiled graph
OpenStorage(k) == k

\* the seed prompt of agent `id` materialised for variant k
SeedPrompt(id, k) == << [type |-> "system", content |-> <<"seed", id, k>>] >>

\* run.py:26-28, the start prompt of variant k as the initial message
StartMessage(k) == [name |-> NoName, type |-> "human", content |-> <<"start", k>>]

\* ArunArgs binding the last compiled graph for every task
ArunArgsLast(i) == agents[Len(agents)]

\* run.py:46-47, the (agent, prompt) pair handed to the i-th arun()
ArunArgs(i) == agents[i]

NewTask(i) ==
    [st |-> "waiting", g |-> ArunArgs(i), node |-> START, msgs |-> <<>>,
     steps |-> 0, input |-> <<>>, why |-> "none"]

Running == {i \in DOMAIN tasks : tasks[i].st = "running"}
Waiting == {i \in DOMAIN tasks : tasks[i].st = "waiting"}
Finished == {i \in DOMAIN tasks : tasks[i].st \in {"done", "failed"}}
Failed == {i \in DOMAIN tasks : tasks[i].st = "failed"}
Cancelled == {i \in DOMAIN tasks : tasks[i].st = "cancelled"}

nonRunVars == <<agVars, matVars, exVars, rpVars, evVars, scVars, btVars, bkVars>>

RunInit ==
    /\ pc = "build"
    /\ ntasks \in 0..MaxTasks
    /\ workers_num \in 1..MaxWorkers
    /\ directions \in DirectionConfigs
    /\ agents = <<>>
    /\ conns = <<>>
    /\ sem = workers_num
    /\ tasks = <<>>
    /\ store = <<>>

\* run.py:23-30, one iteration: materialise, compile, open and register storage;
\* an exception of apply_agent_direction leaves run() at line 29
BuildOne ==
    /\ pc = "build"
    /\ Len(agents) < ntasks
    /\ IF BuildError(directions)
       THEN /\ pc' = "build_failed"
            /\ UNCHANGED <<agents, conns, store>>
       ELSE LET k == Len(agents) + 1
                h == OpenStorage(k)
            IN /\ agents' = Append(agents,
                     [variant |-> k, graph |-> ApplyAgentDirection(directions),
                      handle |-> h])
               /\ conns' = Append(conns, [handle |-> h, open |-> TRUE])
               /\ store' = Append(store, [t \in Threads |-> <<>>])
               /\ UNCHANGED pc
    /\ UNCHANGED <<ntasks, workers_num, directions, sem, tasks>>
    /\ UNCHANGED nonRunVars

\* StartGather not waiting for the build loop to end
StartGatherEarly ==
    /\ pc = "build"
    /\ Len(agents) <= ntasks
    /\ tasks' = [i \in 1..Len(agents) |-> NewTask(i)]
    /\ pc' = "gather"
    /\ UNCHANGED <<ntasks, workers_num, directions, agents, conns, sem, store>>
    /\ UNCHANGED nonRunVars

\* run.py:45-49, the coroutines are created and handed to gather
StartGather ==
    /\ pc = "build"
    /\ Len(agents) = ntasks
    /\ tasks' = [i \in 1..ntasks |-> NewTask(i)]
    /\ pc' = "gather"
    /\ UNCHANGED <<ntasks, workers_num, directions, agents, conns, sem, store>>
    /\ UNCHANGED nonRunVars

\* Admit without the semaphore: ainvoke is entered whatever the permits left
AdmitUngated(i) ==
    /\ pc \in {"gather", "raised"}
    /\ tasks[i].st = "waiting"
    /\ sem' = sem - 1
    /\ LET g == tasks[i].g
           first == CHOOSE n \in Successors(g.graph, START, "none") : TRUE
       IN tasks' = [tasks EXCEPT ![i] =
              [@ EXCEPT !.st = "running", !.node = first,
                        !.msgs = AddMessages(store[g.handle][ThreadId],
                                             <<StartMessage(g.variant)>>)]]
    /\ UNCHANGED <<pc, ntasks, workers_num, directions, agents, conns, store>>
    /\ UNCHANGED nonRunVars

\* run.py:35-36, `async with sem` admits the run and ainvoke starts it from the
\* state persisted under (handle, thread id) plus the start prompt
Admit(i) ==
    /\ pc \in {"gather", "raised"}
    /\ tasks[i].st = "waiting"
    /\ sem > 0
    /\ sem' = sem - 1
    /\ LET g == tasks[i].g
           first == CHOOSE n \in Successors(g.graph, START, "none") : TRUE
       IN tasks' = [tasks EXCEPT ![i] =
              [@ EXCEPT !.st = "running", !.node = first,
                        !.msgs = AddMessages(store[g.handle][ThreadId],
                                             <<StartMessage(g.variant)>>)]]
    /\ UNCHANGED <<pc, ntasks, workers_num, directions, agents, conns, store>>
    /\ UNCHANGED nonRunVars

\* AfterNode leaving the run at the node that just ran
AfterNodeStaying(i, label) ==
    LET t == tasks[i]
        g == t.g
        input == ChatbotInput(SeedPrompt(t.node, g.variant), t.node, t.msgs)
        r == ChatbotReply(t.node, <<"reply", i, Len(t.msgs)>>)
        msgs == AddMessages(t.msgs, <<r>>)
        ran == [t EXCEPT !.msgs = msgs, !.steps = @ + 1, !.input = input]
    IN IF RoutingError(g.graph, t.node, label)
       THEN [ran EXCEPT !.st = "failed", !.why = "routing"]
       ELSE IF t.steps + 1 >= RecursionLimit
       THEN [ran EXCEPT !.st = "failed", !.why = "recursion"]
       ELSE ran

\* the state of task i after its node ran, the classifier answering `label`
AfterNode(i, label) ==
    LET t == tasks[i]
        g == t.g
        input == ChatbotInput(SeedPrompt(t.node, g.variant), t.node, t.msgs)
        r == ChatbotReply(t.node, <<"reply", i, Len(t.msgs)>>)
        msgs == AddMessages(t.msgs, <<r>>)
        succ == Successors(g.graph, t.node, label)
        next == CHOOSE n \in succ : TRUE
        ran == [t EXCEPT !.msgs = msgs, !.steps = @ + 1, !.input = input]
    IN IF RoutingError(g.graph, t.node, label)
       THEN [ran EXCEPT !.st = "failed", !.why = "routing"]
       ELSE IF next = END
       THEN [ran EXCEPT !.st = "done", !.node = END]
       ELSE IF t.steps + 1 >= RecursionLimit
       THEN [ran EXCEPT !.st = "failed", !.why = "recursion"]
       ELSE [ran EXCEPT !.node = next]

\* NodeStep without the checkpoint write
NodeStepUnsaved(i) ==
    /\ pc \in {"gather", "raised"}
    /\ tasks[i].st = "running"
    /\ \E label \in (IF HasBranch(tasks[i].g.graph, tasks[i].node) THEN Labels ELSE {"none"}) :
         LET after == AfterNode(i, label)
         IN /\ tasks' = [tasks EXCEPT ![i] = after]
            /\ sem' = IF after.st = "running" THEN sem ELSE sem + 1
    /\ UNCHANGED <<pc, ntasks, workers_num, directions, agents, conns, store>>
    /\ UNCHANGED nonRunVars

\* run.py:36-43, one node of the graph execution of task i: the agent's turn, the
\* reducer, the checkpoint write and the transition
NodeStep(i) ==
    /\ pc \in {"gather", "raised"}
    /\ tasks[i].st = "running"
    /\ \E label \in (IF HasBranch(tasks[i].g.graph, tasks[i].node) THEN Labels ELSE {"none"}) :
         LET after == AfterNode(i, label)
         IN /\ tasks' = [tasks EXCEPT ![i] = after]
            /\ store' = [store EXCEPT ![after.g.handle][ThreadId] = after.msgs]
            /\ sem' = IF after.st = "running" THEN sem ELSE sem + 1
    /\ UNCHANGED <<pc, ntasks, workers_num, directions, agents, conns>>
    /\ UNCHANGED nonRunVars

\* run.py:35-43, the model call of the node raises: the exception leaves
\* `async with sem` and ends the task
ModelFail(i) ==
    /\ pc \in {"gather", "raised"}
    /\ tasks[i].st = "running"
    /\ tasks' = [tasks EXCEPT ![i] = [@ EXCEPT !.st = "failed", !.why = "model"]]
    /\ sem' = sem + 1
    /\ UNCHANGED <<pc, ntasks, workers_num, directions, agents, conns, store>>
    /\ UNCHANGED nonRunVars

\* run.py:49, gather returns once every task has completed without raising
GatherReturn ==
    /\ pc = "gather"
    /\ \A i \in DOMAIN tasks : tasks[i].st = "done"
    /\ pc' = "close"
    /\ UNCHANGED <<ntasks, workers_num, directions, agents, conns, sem, tasks, store>>
    /\ UNCHANGED nonRunVars

\* run.py:49, gather re-raises the exception of a completed task: run() ends
\* there, the statements after line 49 are not executed. The failed task gave
\* its permit back before it ended (run.py:35), which woke the first waiter:
\* that run is admitted before gather's own wake-up comes
GatherRaise ==
    /\ pc = "gather"
    /\ Failed # {}
    /\ ~(sem > 0 /\ Waiting # {})
    /\ pc' = "raised"
    /\ UNCHANGED <<ntasks, workers_num, directions, agents, conns, sem, tasks, store>>
    /\ UNCHANGED nonRunVars

\* run.py:51-53, one iteration of the loop closing the registered handles
CloseConn ==
    /\ pc = "close"
    /\ \E c \in DOMAIN conns :
         /\ conns[c].open
         /\ \A d \in 1..(c - 1) : ~conns[d].open
         /\ conns' = [conns EXCEPT ![c].open = FALSE]
    /\ UNCHANGED <<pc, ntasks, workers_num, directions, agents, sem, tasks, store>>
    /\ UNCHANGED nonRunVars

\* run.py:53, the loop is over and run() returns
Return ==
    /\ pc = "close"
    /\ \A c \in DOMAIN conns : ~conns[c].open
    /\ pc' = "returned"
    /\ UNCHANGED <<ntasks, workers_num, directions, agents, conns, sem, tasks, store>>
    /\ UNCHANGED nonRunVars

\* cli.py:29, asyncio.run(run()) after run() raised: the tasks still pending are
\* cancelled; a cancelled task inside `async with sem` releases its permit
TearDown ==
    /\ pc = "raised"
    /\ pc' = "torn_down"
    /\ tasks' = [i \in DOMAIN tasks |->
                   IF tasks[i].st \in {"waiting", "running"}
                   THEN [tasks[i] EXCEPT !.st = "cancelled"]
                   ELSE tasks[i]]
    /\ sem' = sem + Cardinality(Running)
    /\ UNCHANGED <<ntasks, workers_num, directions, agents, conns, store>>
    /\ UNCHANGED nonRunVars

RunNext ==
    \/ BuildOne
    \/ StartGather
    \/ \E i \in DOMAIN tasks : Admit(i)
    \/ \E i \in DOMAIN tasks : NodeStep(i)
    \/ \E i \in DOMAIN tasks : ModelFail(i)
    \/ GatherReturn
    \/ GatherRaise
    \/ CloseConn
    \/ Return
    \/ TearDown

\* ------------------------------------------------------------------------
\* elmes/run.py: a batch started over storage that an earlier, interrupted
\* batch has written (specification SpecResume)
\* ------------------------------------------------------------------------
\* longest log an earlier execution has persisted
MaxPrior == 2
\* largest number of task variants of the batch started over existing storage
MaxResumed == 2

\* the first n messages an earlier execution of variant k persisted: its start
\* prompt, then the replies of a and b in turn
PriorLog(k, n) ==
    [j \in 1..n |->
        IF j = 1 THEN StartMessage(k)
        ELSE ChatbotReply(IF j % 2 = 0 THEN "a" ELSE "b", <<"reply", k, j - 1>>)]

\* run.py:23-49 over existing storage: the graphs are compiled, the handles
\* opened on the logs of the earlier batch, the coroutines handed to gather
ResumeInit ==
    /\ pc = "gather"
    /\ ntasks \in 1..MaxResumed
    /\ workers_num \in 1..MaxWorkers
    /\ directions \in {Linear, Routed}
    /\ agents = [k \in 1..ntasks |->
          [variant |-> k, graph |-> ApplyAgentDirection(directions),
           handle |-> OpenStorage(k)]]
    /\ conns = [k \in 1..ntasks |-> [handle |-> OpenStorage(k), open |-> TRUE]]
    /\ sem = workers_num
    /\ \E n \in [1..ntasks -> 0..MaxPrior] :
          store = [k \in 1..ntasks |-> [t \in Threads |-> PriorLog(k, n[k])]]
    /\ tasks = [i \in 1..ntasks |-> NewTask(i)]

ResumeNext ==
    \/ \E i \in DOMAIN tasks : Admit(i)
    \/ \E i \in DOMAIN tasks : NodeStep(i)
    \/ \E i \in DOMAIN tasks : ModelFail(i)

\* the variables of the agent turn outside the specifications that use them
AgIdle ==
    /\ ag_name = "a"
    /\ ag_prompt = <<>>
    /\ ag_state = <<>>
    /\ ag_input = <<>>
    /\ ag_out = <<>>
    /\ ag_calls = 0

\* the variables of the materialisation outside the specifications that use them
MatIdle ==
    /\ cfg_prompt = <<>>
    /\ template0 = <<>>
    /\ task_vars = <<>>
    /\ mat = 0
    /\ mat_pc = "idle"
    /\ seen = <<>>

\* the variables of the task expander outside the specifications that use them
ExIdle ==
    /\ ex_mode = "union"
    /\ ex_content = <<>>
    /\ ex_out = <<>>
    /\ ex_pc = "idle"
    /\ ex_compiled = 0
    /\ ex_runs = 0

\* the variables of the templater outside the specification that uses them
RpIdle ==
    /\ rp_prompt = <<>>
    /\ rp_map = <<>>
    /\ rp_out = <<>>
    /\ rp_again = <<>>
    /\ rp_pc = "idle"

\* the variables of the evaluation outside the specification that uses them
EvIdle ==
    /\ ev_mode = "idle"
    /\ ev_resp = <<>>
    /\ ev_out = <<>>
    /\ ev_pc = "idle"

\* the variables of the score table outside the specification that uses them
ScIdle ==
    /\ sc_n = 0
    /\ sc_k = 0
    /\ sc_results = <<>>
    /\ sc_avg = FALSE
    /\ sc_done = <<>>
    /\ sc_evals = <<>>
    /\ sc_csv = <<>>
    /\ sc_pc = "idle"

\* the variables of the batch of evaluations outside the specification that uses them
BtIdle ==
    /\ bt_outcome = <<>>
    /\ bt_tasks = <<>>
    /\ bt_files = {}
    /\ bt_pc = "idle"

\* the variables of the backend outside the specification that uses them
BkIdle ==
    /\ bk_max = 0
    /\ bk_init = FALSE
    /\ bk_pc = "off"
    /\ bk_op = "none"
    /\ bk_calls = 0
    /\ bk_attempt = 0
    /\ bk_sent = 0
    /\ bk_failed = 0
    /\ bk_sleeps = <<>>
    /\ bk_out = "none"

Init == RunInit /\ AgIdle /\ MatIdle /\ ExIdle /\ RpIdle /\ EvIdle /\ ScIdle /\ BtIdle /\ BkIdle

Next == RunNext

Spec == Init /\ [][Next]_vars

InitResume == ResumeInit /\ AgIdle /\ MatIdle /\ ExIdle /\ RpIdle /\ EvIdle /\ ScIdle /\ BtIdle /\ BkIdle

SpecResume == InitResume /\ [][ResumeNext]_vars

\* the variables of the batch runner outside the specifications that use them
RunIdle ==
    /\ pc = "idle"
    /\ ntasks = 0
    /\ workers_num = 1
    /\ directions = <<>>
    /\ agents = <<>>
    /\ conns = <<>>
    /\ sem = 1
    /\ tasks = <<>>
    /\ store = <<>>

\* ------------------------------------------------------------------------
\* One agent's turn function on arbitrary states (specification SpecAgent)
\* ------------------------------------------------------------------------
\* longest conversation state handed to chatbot
MaxMsgs == 2
\* largest number of invocations of chatbot on one state
MaxCalls == 2

SeqsUpTo(S, n) == UNION {[1..k -> S] : k \in 0..n}

Speakers == {"a", "b", NoName}
Contents == {"x", "y"}
\* the messages a conversation state may hold: replies of agents, start prompts
StoredMessages ==
    {[name |-> n, type |-> (IF n = NoName THEN "human" ELSE "ai"), content |-> c] :
        n \in Speakers, c \in Contents}
\* materialised seed prompts
SeedPrompts ==
    { << [type |-> "system", content |-> "p"] >>,
      << [type |-> "system", content |-> "p"], [type |-> "user", content |-> "q"] >> }

\* ChatbotStateAfter storing the computed perspective in the state's messages
ChatbotStateRetagged(agent_name, messages) ==
    [i \in 1..Len(messages) |->
        [messages[i] EXCEPT !.type = Rewrite(agent_name, messages[i]).type]]

\* agent.py:32-37, state["messages"] after the loop: `item = ...` rebinds the
\* loop variable to a new message, the list and its items are left as they were
ChatbotStateAfter(agent_name, messages) == messages

\* agent.py:28,38, ac.prompt after n_m was built: `ac.prompt + n_m` is a new list
ChatbotPromptAfter(prompt, messages) == prompt

AgentInit ==
    /\ ag_name \in {"a", "b"}
    /\ ag_prompt \in SeedPrompts
    /\ ag_state \in SeqsUpTo(StoredMessages, MaxMsgs)
    /\ ag_input = <<>>
    /\ ag_out = <<>>
    /\ ag_calls = 0

\* agent.py:24-41, chatbot(state), the model answering `reply`
Chatbot ==
    /\ ag_calls < MaxCalls
    /\ \E reply \in Contents :
         ag_out' = <<ChatbotReply(ag_name, reply)>>
    /\ ag_input' = ChatbotInput(ag_prompt, ag_name, ag_state)
    /\ ag_state' = ChatbotStateAfter(ag_name, ag_state)
    /\ ag_prompt' = ChatbotPromptAfter(ag_prompt, ag_state)
    /\ ag_calls' = ag_calls + 1
    /\ UNCHANGED ag_name
    /\ UNCHANGED <<runVars, matVars, exVars, rpVars, evVars, scVars, btVars, bkVars>>

AgentNext == Chatbot

InitAgent == RunIdle /\ AgentInit /\ MatIdle /\ ExIdle /\ RpIdle /\ EvIdle /\ ScIdle /\ BtIdle /\ BkIdle

SpecAgent == InitAgent /\ [][AgentNext]_vars

\* C6: the model input of a turn of agent X on messages m1..mk is X's seed
\* prompt followed by exactly k entries in the original order, the i-th tagged
\* self ("ai") iff mi's speaker is X and other ("human") otherwise, with mi's
\* content; for k = 0 it is the seed prompt alone.
PerspectiveInput ==
    ag_calls >= 1 =>
        LET n == Len(ag_prompt)
        IN /\ Len(ag_input) = n + Len(ag_state)
           /\ \A p \in 1..n : ag_input[p] = ag_prompt[p]
           /\ \A i \in 1..Len(ag_state) :
                /\ ag_input[n + i].content = ag_state[i].content
                /\ ag_input[n + i].type \in {"ai", "human"}
                /\ ag_input[n + i].type = "ai" <=> ag_state[i].name = ag_name

\* C6 witness: a turn was computed on a state holding a message of the agent
\* itself and a message of another speaker.
PerspectiveBothTags ==
    /\ ag_calls >= 1
    /\ \E i, j \in 1..Len(ag_state) :
         ag_state[i].name = ag_name /\ ag_state[j].name # ag_name

\* C8: an invocation of chatbot leaves the state passed to it and the agent's
\* seed prompt as they were, and a repeated invocation on the same state hands
\* the model the input of the previous one.
TurnLeavesStateAlone ==
    [][ag_calls' = ag_calls + 1 =>
         /\ ag_state' = ag_state
         /\ ag_prompt' = ag_prompt
         /\ ag_calls >= 1 => ag_input' = ag_input
      ]_vars

\* C8 witness: chatbot was invoked twice on a state whose stored types differ
\* from the perspective of the agent called.
TurnRepeated ==
    /\ ag_calls >= 2
    /\ \E i \in 1..Len(ag_state) : ag_state[i].type # Rewrite(ag_name, ag_state[i]).type

\* ------------------------------------------------------------------------
\* elmes/utils.py: replace_prompt
\* ------------------------------------------------------------------------
\* A string is a sequence of tokens: Lit(t), text without braces, or Ph(k), the
\* placeholder "{k}". A variable map is a sequence of <<key, value>> pairs in
\* dict order, its values strings. A prompt is [form, role, content] with form
\* "obj" (a Prompt object) or "dict"; NoContent is a dict without "content".
Lit(t) == <<"lit", t>>
Ph(k) == <<"ph", k>>
NoContent == << <<"none", "content">> >>
\* the result of a prompt whose substitution raised KeyError
KeyError == [form |-> "KeyError", role |-> "", content |-> NoContent]
IsError(rs) == \E i \in 1..Len(rs) : rs[i].form = "KeyError"

RECURSIVE Flatten(_)
Flatten(ss) == IF ss = <<>> THEN <<>> ELSE Head(ss) \o Flatten(Tail(ss))

\* str.replace("{" + k + "}", v)
StrReplace(content, k, v) ==
    Flatten([i \in 1..Len(content) |-> IF content[i] = Ph(k) THEN v ELSE <<content[i]>>])

RECURSIVE ReplaceAll(_, _)
\* utils.py:33-34 (44-45), the loop over the map updating p.content in turn
ReplaceAll(content, prompt_map) ==
    IF prompt_map = <<>> THEN content
    ELSE ReplaceAll(StrReplace(content, Head(prompt_map)[1], Head(prompt_map)[2]),
                    Tail(prompt_map))

\* utils.py:32-35 (43-46), a Prompt object
ReplaceObj(p, prompt_map) ==
    [form |-> "dict", role |-> p.role, content |-> ReplaceAll(p.content, prompt_map)]

\* utils.py:27-31 (38-42), a dict: every iteration reads p["content"] anew and
\* overwrites r["content"]; with no key r has no "content" at all
ReplaceDict(p, prompt_map) ==
    IF prompt_map = <<>>
    THEN [form |-> "dict", role |-> p.role, content |-> NoContent]
    ELSE IF p.content = NoContent
    THEN KeyError
    ELSE LET last == prompt_map[Len(prompt_map)]
         IN [form |-> "dict", role |-> p.role,
             content |-> StrReplace(p.content, last[1], last[2])]

\* utils.py:26-35, one prompt of the list (a deep copy of it)
ReplaceOne(p, prompt_map) ==
    IF p.form = "dict" THEN ReplaceDict(p, prompt_map) ELSE ReplaceObj(p, prompt_map)

\* utils.py:19-47, replace_prompt on a list of prompts
ReplacePrompt(prompt, prompt_map) ==
    [i \in 1..Len(prompt) |-> ReplaceOne(prompt[i], prompt_map)]

\* ------------------------------------------------------------------------
\* elmes/agent.py: materialising the agents of each task variant
\* (specification SpecMat)
\* ------------------------------------------------------------------------
\* largest number of task variants materialised
MaxVariants == 2

MatAgents == {"a", "b"}
VarKeys == {"x", "y"}
VarValues == { <<Lit("1")>>, <<Lit("2")>> }
\* the content templates of the configured prompts
Templates ==
    { <<Lit("t")>>, <<Lit("t"), Ph("x")>>, <<Ph("x"), Ph("y")>> }
\* the variable maps: distinct keys, in any dict order
VarMaps ==
    {m \in SeqsUpTo(VarKeys \X VarValues, Cardinality(VarKeys)) :
        \A i, j \in 1..Len(m) : i # j => m[i][1] # m[j][1]}

MatInit ==
    /\ template0 \in [MatAgents ->
          {<< [form |-> "obj", role |-> "system", content |-> c] >> : c \in Templates}]
    /\ cfg_prompt = template0
    /\ task_vars \in SeqsUpTo(VarMaps, MaxVariants)
    /\ mat = 0
    /\ mat_pc = "run"
    /\ seen = <<>>

\* agent.py:20-21 on every agent of agent.py:51-53: `ac` is CONFIG.agents[k]
\* itself, so the substituted prompt is stored back into the configuration
InitAgentMapFromDict(prompts, dynamic_prompt_map) ==
    [a \in DOMAIN prompts |-> ReplacePrompt(prompts[a], dynamic_prompt_map)]

\* agent.py:46-66, init_agent_map_from_dict for the next variant
Materialize ==
    /\ mat_pc = "run"
    /\ mat < Len(task_vars)
    /\ LET after == InitAgentMapFromDict(cfg_prompt, task_vars[mat + 1])
       IN IF \E a \in DOMAIN after : IsError(after[a])
          THEN /\ mat_pc' = "error"
               /\ UNCHANGED <<cfg_prompt, mat, seen>>
          ELSE /\ cfg_prompt' = after
               /\ mat' = mat + 1
               /\ seen' = Append(seen, [a \in MatAgents |-> <<>>])
               /\ UNCHANGED mat_pc
    /\ UNCHANGED <<template0, task_vars>>
    /\ UNCHANGED <<runVars, agVars, exVars, rpVars, evVars, scVars, btVars, bkVars>>

\* agent.py:24-41, the chatbot of agent a of variant k runs: it reads ac.prompt
\* of the AgentConfig its closure holds, the one of the configuration
InvokeAgent(k, a) ==
    /\ mat_pc = "run"
    /\ mat = Len(task_vars)
    /\ seen[k][a] = <<>>
    /\ seen' = [seen EXCEPT ![k][a] = cfg_prompt[a]]
    /\ UNCHANGED <<cfg_prompt, template0, task_vars, mat, mat_pc>>
    /\ UNCHANGED <<runVars, agVars, exVars, rpVars, evVars, scVars, btVars, bkVars>>

MatNext ==
    \/ Materialize
    \/ \E k \in DOMAIN seen, a \in MatAgents : InvokeAgent(k, a)

InitMat == RunIdle /\ AgIdle /\ MatInit /\ ExIdle /\ RpIdle /\ EvIdle /\ ScIdle /\ BtIdle /\ BkIdle

SpecMat == InitMat /\ [][MatNext]_vars

\* the value of key k in the variable map m, or the placeholder left as it is
ValueOf(m, k) ==
    IF \E i \in 1..Len(m) : m[i][1] = k
    THEN m[CHOOSE i \in 1..Len(m) : m[i][1] = k][2]
    ELSE <<Ph(k)>>

\* the template `content` with every placeholder of a key of m replaced by m's value
Substituted(content, m) ==
    Flatten([i \in 1..Len(content) |->
        IF content[i][1] = "ph" THEN ValueOf(m, content[i][2]) ELSE <<content[i]>>])

\* C9: materialising the variants leaves the configured templates as loaded,
\* and the seed prompt a variant's agent uses is the original template with
\* that variant's variable map substituted.
MaterialisedFromTemplate ==
    /\ \A a \in DOMAIN cfg_prompt : \A i \in 1..Len(cfg_prompt[a]) :
         cfg_prompt[a][i].content = template0[a][i].content
    /\ \A k \in DOMAIN seen : \A a \in MatAgents :
            \A i \in 1..Len(seen[k][a]) :
               seen[k][a][i].content = Substituted(template0[a][i].content, task_vars[k])

\* ------------------------------------------------------------------------
\* elmes/utils.py: replace_prompt called on its own (specification SpecReplace)
\* ------------------------------------------------------------------------
\* longest list of prompts handed to replace_prompt
MaxPrompts == 2

\* contents with no, one, a repeated, several and an unmatched placeholder
RpContents ==
    Templates \cup { <<Ph("x"), Lit("t"), Ph("x")>>, <<Ph("z"), Ph("y")>> }
RpPrompts ==
    [form : {"obj", "dict"}, role : {"system"}, content : RpContents]

\* utils.py:36-46, replace_prompt on a prompt that is not a list
ReplaceSingle(p, prompt_map) == << ReplaceOne(p, prompt_map) >>

\* utils.py:19-47, replace_prompt on either kind of argument
ReplacePromptAny(prompt, prompt_map) ==
    IF prompt.single
    THEN ReplaceSingle(prompt.ps[1], prompt_map)
    ELSE ReplacePrompt(prompt.ps, prompt_map)

ReplaceInit ==
    /\ rp_prompt \in
          [single : {TRUE}, ps : {<<q>> : q \in RpPrompts}]
          \cup [single : {FALSE}, ps : SeqsUpTo(RpPrompts, MaxPrompts)]
    /\ rp_map \in VarMaps
    /\ rp_out = <<>>
    /\ rp_again = <<>>
    /\ rp_pc = "call"

\* utils.py:19-47, replace_prompt(prompt, prompt_map)
ReplaceCall ==
    /\ rp_pc = "call"
    /\ LET r == ReplacePromptAny(rp_prompt, rp_map)
       IN IF IsError(r)
          THEN rp_pc' = "raised" /\ UNCHANGED rp_out
          ELSE rp_pc' = "returned" /\ rp_out' = r
    /\ UNCHANGED <<rp_prompt, rp_map, rp_again>>
    /\ UNCHANGED <<runVars, agVars, matVars, exVars, evVars, scVars, btVars, bkVars>>

\* utils.py:19-47, replace_prompt(replace_prompt(prompt, prompt_map), prompt_map):
\* the first result is a list of dicts
ReplaceAgain ==
    /\ rp_pc = "returned"
    /\ LET r == ReplacePromptAny([single |-> FALSE, ps |-> rp_out], rp_map)
       IN IF IsError(r)
          THEN rp_pc' = "raised" /\ UNCHANGED rp_again
          ELSE rp_pc' = "again" /\ rp_again' = r
    /\ UNCHANGED <<rp_prompt, rp_map, rp_out>>
    /\ UNCHANGED <<runVars, agVars, matVars, exVars, evVars, scVars, btVars, bkVars>>

ReplaceNext ==
    \/ ReplaceCall
    \/ ReplaceAgain

InitReplace == RunIdle /\ AgIdle /\ MatIdle /\ ExIdle /\ ReplaceInit /\ EvIdle /\ ScIdle /\ BtIdle /\ BkIdle

SpecReplace == InitReplace /\ [][ReplaceNext]_vars

\* ------------------------------------------------------------------------
\* elmes/evaluation.py: evaluate(model, exported_result) (specification SpecEval)
\* ------------------------------------------------------------------------
\* longest grader response, in tokens
MaxResp == 6

\* the tokens of a response: the two markers, white space, other text, and
\* two texts that are JSON documents
StartMark == "<START OUTPUT>"
EndMark == "<END OUTPUT>"
JsonTexts == {"j1", "j2"}
RespTokens == {StartMark, EndMark, "ws", "text"} \cup JsonTexts
FormatModes == {"tool", "prompt", "other"}

\* the positions of token m in response r
PositionsOf(r, m) == {i \in 1..Len(r) : r[i] = m}

Max(S) == CHOOSE x \in S : \A y \in S : y <= x
Min(S) == CHOOSE x \in S : \A y \in S : x <= y

\* the positions from p on at which <START OUTPUT>(.*)<END OUTPUT> matches:
\* a start marker with an end marker somewhere after it
MatchStarts(r, p) ==
    {i \in PositionsOf(r, StartMark) :
        i >= p /\ \E j \in PositionsOf(r, EndMark) : j > i}

RECURSIVE FindallFrom(_, _)
\* evaluation.py:82, re.findall scanning from position p: the leftmost match,
\* its group running to the last end marker (`.*` is greedy and, with
\* re.DOTALL, crosses lines), then the scan goes on after the match
FindallFrom(r, p) ==
    IF MatchStarts(r, p) = {} THEN <<>>
    ELSE LET i == Min(MatchStarts(r, p))
             j == Max(PositionsOf(r, EndMark))
         IN <<SubSeq(r, i + 1, j - 1)>> \o FindallFrom(r, j + 1)

\* Findall returning no match whatever the response
FindallNothing(r) == SubSeq(FindallFrom(r, 1), 1, 0)

\* evaluation.py:82, re.findall(r"<START OUTPUT>(.*)<END OUTPUT>", response, re.DOTALL)
Findall(r) == FindallFrom(r, 1)

\* the text t without its white space
Stripped(t) == SelectSeq(t, LAMBDA x : x # "ws")

\* evaluation.py:84 (70), json.loads: the value of a text that is one JSON
\* document in optional white space, <<>> for the JSONDecodeError of any other
JsonLoads(t) ==
    IF Len(Stripped(t)) = 1 /\ Stripped(t)[1] \in JsonTexts
    THEN <<Stripped(t)[1]>>
    ELSE <<>>

EvalInit ==
    /\ ev_mode \in FormatModes
    /\ ev_resp \in SeqsUpTo(RespTokens, MaxResp)
    /\ ev_out = <<>>
    /\ ev_pc = "call"

\* evaluation.py:37-91, evaluate: the grader has answered ev_resp
Evaluate ==
    /\ ev_pc = "call"
    /\ LET value ==
             IF ev_mode = "tool" THEN JsonLoads(ev_resp)
             ELSE IF ev_mode = "prompt"
             THEN LET match == Findall(ev_resp)
                  IN IF Len(match) > 0 THEN JsonLoads(match[Len(match)]) ELSE <<>>
             ELSE <<>>
       IN /\ ev_out' = value
          /\ ev_pc' = IF value = <<>> THEN "raised" ELSE "returned"
    /\ UNCHANGED <<ev_mode, ev_resp>>
    /\ UNCHANGED <<runVars, agVars, matVars, exVars, rpVars, scVars, btVars, bkVars>>

EvalNext == Evaluate

InitEval == RunIdle /\ AgIdle /\ MatIdle /\ ExIdle /\ RpIdle /\ EvalInit /\ ScIdle /\ BtIdle /\ BkIdle

SpecEval == InitEval /\ [][EvalNext]_vars

\* ------------------------------------------------------------------------
\* elmes/cli.py: eval_logic.main, from gather to the score file
\* (specification SpecScore)
\* ------------------------------------------------------------------------
\* largest number of transcript files of a batch
MaxFiles == 2
\* largest number of metrics of the grading format
MaxMetrics == 2

\* the metrics in the order of the grading format, and the values each takes
Fields == <<"a", "b", "c", "d">>
FieldValues(f) ==
    CASE f = "a" -> {2, 6}
      [] f = "b" -> {4, 8}
      [] OTHER -> {1, 3}

\* cli.py:166, the task id of the i-th file: its stem
TaskId(i) == <<"task", i>>

\* the records of k metrics: sequences of <<field, value>> in dict order
Records(k) ==
    {[j \in 1..k |-> <<Fields[j], v[j]>>] :
        v \in {w \in [1..k -> 1..8] : \A j \in 1..k : w[j] \in FieldValues(Fields[j])}}
EmptyRecord == <<>>

\* numbers of the table: n / d
Rat(n, d) == [n |-> n, d |-> d]
RatAdd(x, y) == Rat(x.n * y.d + y.n * x.d, x.d * y.d)
RatDiv(x, m) == Rat(x.n, x.d * m)
RECURSIVE RatSum(_)
RatSum(xs) == IF xs = <<>> THEN Rat(0, 1) ELSE RatAdd(Head(xs), RatSum(Tail(xs)))

\* "%.2f" % x and f"{x:.2f}": x in hundredths, a tie going to the even digit
Fmt2(x) ==
    LET q == (100 * x.n) \div x.d
        rem == (100 * x.n) % x.d
    IN <<"2f", IF 2 * rem > x.d \/ (2 * rem = x.d /\ q % 2 = 1) THEN q + 1 ELSE q>>

\* f"{c}", the value of a metric as the grader gave it
Str(c) == <<"str", c>>

\* SortedByIndex leaving the results in their order of completion
InCompletionOrder(done) == [l \in 1..Len(done) |-> done[l][2]]

RECURSIVE SortedByIndex(_)
\* tqdm's gather: the results in the order of the coroutines, whatever the
\* order of completion
SortedByIndex(done) ==
    IF done = <<>> THEN <<>>
    ELSE LET m == CHOOSE j \in 1..Len(done) : \A l \in 1..Len(done) : done[j][1] <= done[l][1]
             rest == [l \in 1..(Len(done) - 1) |-> IF l < m THEN done[l] ELSE done[l + 1]]
         IN <<done[m][2]>> \o SortedByIndex(rest)

\* cli.py:175-183, the title: task_id, the fields of the first record that
\* has any, and avg
Title(evals, avg) ==
    LET nonempty == {j \in 1..Len(evals) : evals[j] # <<>>}
        e == IF nonempty = {} THEN <<>> ELSE evals[Min(nonempty)]
    IN <<"task_id">> \o [j \in 1..Len(e) |-> e[j][1]]
         \o (IF avg THEN <<"avg">> ELSE <<>>)

\* cli.py:197-201, the row of the matrix for one record before its average
MatrixRow(eval, col) ==
    [j \in 1..col |-> IF j <= Len(eval) THEN Rat(eval[j][2], 1) ELSE Rat(0, 1)]

\* RowAverage dividing by the number of columns, the average's own included
RowAverageOverCol(mrow, col) == RatDiv(RatSum(SubSeq(mrow, 1, col - 1)), col)

\* cli.py:202-206, the average of a row: the sum of all entries but the last
\* over col - 1
RowAverage(mrow, col) == RatDiv(RatSum(SubSeq(mrow, 1, col - 1)), col - 1)

\* cli.py:195-208, the matrix rows of the tasks, each with its average
Matrix(evals, col) ==
    [i \in 1..Len(evals) |->
        [MatrixRow(evals[i], col) EXCEPT ![col] = RowAverage(MatrixRow(evals[i], col), col)]]

\* cli.py:211-217, the last row: the average of every column over the tasks
ColumnAverages(matrix, row, col) ==
    [c \in 1..col |-> RatDiv(RatSum([i \in 1..(row - 1) |-> matrix[i][c]]), row - 1)]

\* cli.py:196-208 (226-230), the line written for task i
DataLine(i, eval, matrix, col, avg) ==
    <<TaskId(i)>> \o [j \in 1..Len(eval) |-> Str(eval[j][2])]
        \o (IF avg THEN <<Fmt2(matrix[i][col])>> ELSE <<>>)

\* cli.py:185-224, a division by zero: with averages, a title without fields
\* and at least one task (line 206), or no task at all (line 217)
DivisionByZero(evals, avg) ==
    avg /\ (Len(evals) = 0 \/ Len(Title(evals, avg)) = 2)

\* cli.py:172-232, the lines of the score file
CsvLines(evals, avg) ==
    LET title == Title(evals, avg)
        row == Len(evals) + 1
        col == Len(title) - 1
        matrix == Matrix(evals, col)
        data == [i \in 1..Len(evals) |-> DataLine(i, evals[i], matrix, col, avg)]
    IN <<title>> \o data
         \o (IF avg
             THEN << <<"Avg">> \o [c \in 1..col |-> Fmt2(ColumnAverages(matrix, row, col)[c])] >>
             ELSE <<>>)

ScoreInit ==
    /\ sc_n \in 0..MaxFiles
    /\ sc_k \in 1..MaxMetrics
    /\ sc_results \in [1..sc_n -> Records(sc_k) \cup {EmptyRecord}]
    /\ sc_avg \in BOOLEAN
    /\ sc_done = <<>>
    /\ sc_evals = <<>>
    /\ sc_csv = <<>>
    /\ sc_pc = "gather"

\* cli.py:149-158 and 170, the eval_task of file i completes with its result
Complete(i) ==
    /\ sc_pc = "gather"
    /\ \A l \in 1..Len(sc_done) : sc_done[l][1] # i
    /\ sc_done' = Append(sc_done, <<i, sc_results[i]>>)
    /\ UNCHANGED <<sc_n, sc_k, sc_results, sc_avg, sc_evals, sc_csv, sc_pc>>
    /\ UNCHANGED <<runVars, agVars, matVars, exVars, rpVars, evVars, btVars, bkVars>>

\* cli.py:170-234, gather returns and main writes the score file; a
\* ZeroDivisionError leaves main with the title line written
Aggregate ==
    /\ sc_pc = "gather"
    /\ Len(sc_done) = sc_n
    /\ LET evals == SortedByIndex(sc_done)
       IN /\ sc_evals' = evals
          /\ IF DivisionByZero(evals, sc_avg)
             THEN sc_csv' = <<Title(evals, sc_avg)>> /\ sc_pc' = "raised"
             ELSE sc_csv' = CsvLines(evals, sc_avg) /\ sc_pc' = "written"
    /\ UNCHANGED <<sc_n, sc_k, sc_results, sc_avg, sc_done>>
    /\ UNCHANGED <<runVars, agVars, matVars, exVars, rpVars, evVars, btVars, bkVars>>

ScoreNext ==
    \/ \E i \in 1..sc_n : Complete(i)
    \/ Aggregate

InitScore == RunIdle /\ AgIdle /\ MatIdle /\ ExIdle /\ RpIdle /\ EvIdle /\ ScoreInit /\ BtIdle /\ BkIdle

SpecScore == InitScore /\ [][ScoreNext]_vars

\* ------------------------------------------------------------------------
\* elmes/cli.py: eval_logic.eval_task under gather (specification SpecBatch)
\* ------------------------------------------------------------------------
\* how evaluate (evaluation.py:37-91) ends: it returns a record, raises
\* ValueError for a response without markers (line 86), raises
\* json.JSONDecodeError (line 84), or the model call inside agent.invoke
\* (line 80) raises a tenacity RetryError or an error of another class
Outcomes == {"record", "no_markers", "bad_json", "retry_error", "model_error"}
Failures == Outcomes \ {"record"}

\* the empty record eval_task returns at cli.py:158
NoRecord == <<"record", 0>>

\* cli.py:149-158, how eval_task ends: only RetryError is caught (line 156);
\* evaluate is a plain function (evaluation.py:37), so after it returned its
\* record `await` raises TypeError before the score file is opened
EvalTaskEnd(i, outcome) ==
    IF outcome = "retry_error"
    THEN [st |-> "returned", ret |-> NoRecord, file |-> FALSE]
    ELSE [st |-> "raised", ret |-> NoRecord, file |-> FALSE]

BatchInit ==
    /\ bt_outcome \in SeqsUpTo(Outcomes, MaxFiles)
    /\ bt_tasks = [i \in 1..Len(bt_outcome) |-> [st |-> "pending", ret |-> NoRecord]]
    /\ bt_files = {}
    /\ bt_pc = "gather"

\* cli.py:149-158, the eval_task of file i runs: evaluate has no suspension
\* point, so the task runs from start to end in one step
EvalTask(i) ==
    /\ bt_pc = "gather"
    /\ bt_tasks[i].st = "pending"
    /\ LET end == EvalTaskEnd(i, bt_outcome[i])
       IN /\ bt_tasks' = [bt_tasks EXCEPT ![i] = [st |-> end.st, ret |-> end.ret]]
          /\ bt_files' = IF end.file THEN bt_files \cup {i} ELSE bt_files
    /\ UNCHANGED <<bt_outcome, bt_pc>>
    /\ UNCHANGED <<runVars, agVars, matVars, exVars, rpVars, evVars, scVars, bkVars>>

\* cli.py:170, gather returns the results: every eval_task returned
BatchGatherReturn ==
    /\ bt_pc = "gather"
    /\ \A i \in DOMAIN bt_tasks : bt_tasks[i].st = "returned"
    /\ bt_pc' = "aggregate"
    /\ UNCHANGED <<bt_outcome, bt_tasks, bt_files>>
    /\ UNCHANGED <<runVars, agVars, matVars, exVars, rpVars, evVars, scVars, bkVars>>

\* cli.py:170 and 234, gather re-raises the exception of an eval_task: main
\* and asyncio.run end with it, no score table is written
BatchGatherRaise ==
    /\ bt_pc = "gather"
    /\ \A i \in DOMAIN bt_tasks : bt_tasks[i].st # "pending"
    /\ \E i \in DOMAIN bt_tasks : bt_tasks[i].st = "raised"
    /\ bt_pc' = "aborted"
    /\ UNCHANGED <<bt_outcome, bt_tasks, bt_files>>
    /\ UNCHANGED <<runVars, agVars, matVars, exVars, rpVars, evVars, scVars, bkVars>>

BatchNext ==
    \/ \E i \in DOMAIN bt_tasks : EvalTask(i)
    \/ BatchGatherReturn
    \/ BatchGatherRaise

InitBatch ==
    RunIdle /\ AgIdle /\ MatIdle /\ ExIdle /\ RpIdle /\ EvIdle /\ ScIdle /\ BatchInit /\ BkIdle

SpecBatch == InitBatch /\ [][BatchNext]_vars

\* ------------------------------------------------------------------------
\* backend/openai_backend.py and backend/ollama_backend.py: initialize() and
\* chat() of a backend (specification SpecBackend)
\* ------------------------------------------------------------------------
\* largest max_retries of the backend configuration
MaxRetries == 3
\* largest number of chat() and initialize() calls made on one backend
MaxBackendCalls == 3

\* Backoff growing by two seconds per attempt
BackoffLinear(attempt) == 2 * attempt

\* openai_backend.py:126 (ollama_backend.py:150), time.sleep(2 ** attempt)
Backoff(attempt) == 2 ^ attempt

\* base.py:19-39, the backend after construction
BackendInit ==
    /\ bk_max \in 0..MaxRetries
    /\ bk_init = FALSE
    /\ bk_pc = "idle"
    /\ bk_op = "none"
    /\ bk_calls = 0
    /\ bk_attempt = 0
    /\ bk_sent = 0
    /\ bk_failed = 0
    /\ bk_sleeps = <<>>
    /\ bk_out = "none"

\* openai_backend.py:30-66 (ollama_backend.py:30-58), initialize() called by
\* the user: the flag is set to whether the probe of the service succeeded
Initialize ==
    /\ bk_pc = "idle"
    /\ bk_calls < MaxBackendCalls
    /\ \E success \in BOOLEAN : bk_init' = success
    /\ bk_op' = "initialize"
    /\ bk_calls' = bk_calls + 1
    /\ UNCHANGED <<bk_max, bk_pc, bk_attempt, bk_sent, bk_failed, bk_sleeps, bk_out>>
    /\ UNCHANGED <<runVars, agVars, matVars, exVars, rpVars, evVars, scVars, btVars>>

\* ChatStart entering the request loop whatever the flag
ChatStartUnchecked ==
    /\ bk_pc = "idle"
    /\ bk_calls < MaxBackendCalls
    /\ bk_op' = "chat"
    /\ bk_calls' = bk_calls + 1
    /\ bk_attempt' = 0
    /\ bk_sent' = 0
    /\ bk_failed' = 0
    /\ bk_sleeps' = <<>>
    /\ bk_pc' = "loop"
    /\ bk_out' = "none"
    /\ UNCHANGED <<bk_max, bk_init>>
    /\ UNCHANGED <<runVars, agVars, matVars, exVars, rpVars, evVars, scVars, btVars>>

\* openai_backend.py:68-110 (ollama_backend.py:98-134), chat() up to its
\* loop: an uninitialized backend is initialized first, and a failed
\* initialization raises
ChatStart ==
    /\ bk_pc = "idle"
    /\ bk_calls < MaxBackendCalls
    /\ bk_op' = "chat"
    /\ bk_calls' = bk_calls + 1
    /\ bk_attempt' = 0
    /\ bk_sent' = 0
    /\ bk_failed' = 0
    /\ bk_sleeps' = <<>>
    /\ IF bk_init
       THEN bk_pc' = "loop" /\ bk_out' = "none" /\ UNCHANGED bk_init
       ELSE \E success \in BOOLEAN :
              /\ bk_init' = success
              /\ IF success
                 THEN bk_pc' = "loop" /\ bk_out' = "none"
                 ELSE bk_pc' = "idle" /\ bk_out' = "init_error"
    /\ UNCHANGED bk_max
    /\ UNCHANGED <<runVars, agVars, matVars, exVars, rpVars, evVars, scVars, btVars>>

\* openai_backend.py:112-126 (ollama_backend.py:136-150), one iteration of the
\* loop: the request is sent; a response ends the loop, an exception is
\* followed by the sleep unless the attempt was the last
Attempt ==
    /\ bk_pc = "loop"
    /\ bk_attempt < bk_max
    /\ bk_sent' = bk_sent + 1
    /\ \E ok \in BOOLEAN :
         IF ok
         THEN /\ bk_pc' = "done"
              /\ UNCHANGED <<bk_attempt, bk_failed, bk_sleeps>>
         ELSE /\ bk_failed' = bk_failed + 1
              /\ bk_sleeps' = IF bk_attempt < bk_max - 1
                               THEN Append(bk_sleeps, Backoff(bk_attempt))
                               ELSE bk_sleeps
              /\ bk_attempt' = bk_attempt + 1
              /\ UNCHANGED bk_pc
    /\ UNCHANGED <<bk_max, bk_init, bk_op, bk_calls, bk_out>>
    /\ UNCHANGED <<runVars, agVars, matVars, exVars, rpVars, evVars, scVars, btVars>>

\* openai_backend.py:128-132 (ollama_backend.py:152-159), after the loop:
\* without a result chat() raises, with one it returns it
ChatEnd ==
    /\ \/ bk_pc = "done" /\ bk_out' = "returned"
       \/ bk_pc = "loop" /\ bk_attempt >= bk_max /\ bk_out' = "request_error"
    /\ bk_pc' = "idle"
    /\ UNCHANGED <<bk_max, bk_init, bk_op, bk_calls, bk_attempt, bk_sent, bk_failed, bk_sleeps>>
    /\ UNCHANGED <<runVars, agVars, matVars, exVars, rpVars, evVars, scVars, btVars>>

BackendNext ==
    \/ Initialize
    \/ ChatStart
    \/ Attempt
    \/ ChatEnd

InitBackend ==
    RunIdle /\ AgIdle /\ MatIdle /\ ExIdle /\ RpIdle /\ EvIdle /\ ScIdle /\ BtIdle /\ BackendInit

SpecBackend == InitBackend /\ [][BackendNext]_vars

\* ------------------------------------------------------------------------
\* elmes/utils.py: extract(data, "tasks") (specification SpecExtract)
\* ------------------------------------------------------------------------
\* largest number of dimensions of a union task
MaxDims == 2
\* longest value list of a dimension
MaxVals == 2
\* longest content list of an iter task
MaxIter == 2

DimKeys == {"d1", "d2", "d3"}
DimValues == {"u", "v"}
\* tasks["mode"] as written, and mode.lower() of utils.py:53
Modes == {"union", "Union", "iter", "ITER", "zip"}
Lower(m) ==
    CASE m = "Union" -> "union"
      [] m = "ITER" -> "iter"
      [] OTHER -> m

\* the content of a union task: <<dimension, value list>> pairs in declared
\* order, the dimensions distinct (keys of a mapping)
UnionContents ==
    {c \in SeqsUpTo(DimKeys \X SeqsUpTo(DimValues, MaxVals), MaxDims) :
        \A i, j \in 1..Len(c) : i # j => c[i][1] # c[j][1]}
\* the content of an iter task: a list of variable maps
IterContents ==
    SeqsUpTo({ <<>>, << <<"d1", "u">> >>, << <<"d1", "v">>, <<"d2", "u">> >> }, MaxIter)

\* ProductStep with the two loops exchanged: the first dimension varies fastest
ProductStepSwapped(result, pool) ==
    Flatten([j \in 1..Len(pool) |->
                [i \in 1..Len(result) |-> Append(result[i], pool[j])]])

\* itertools.product, one pool: [x + [y] for x in result for y in pool]
ProductStep(result, pool) ==
    Flatten([i \in 1..Len(result) |->
                [j \in 1..Len(pool) |-> Append(result[i], pool[j])]])

RECURSIVE ProductFrom(_, _)
ProductFrom(result, pools) ==
    IF pools = <<>> THEN result
    ELSE ProductFrom(ProductStep(result, Head(pools)), Tail(pools))

\* utils.py:69, itertools.product(*values)
Product(pools) == ProductFrom(<< <<>> >>, pools)

\* utils.py:73, dict(zip(keys, c)) as <<key, value>> pairs in key order
DictZip(keys, c) == [i \in 1..Len(keys) |-> <<keys[i], c[i]>>]

\* utils.py:56-74, the union branch (the counters of lines 57-65 are not used)
ExtractUnion(content) ==
    LET keys == [i \in 1..Len(content) |-> content[i][1]]
        values == [i \in 1..Len(content) |-> content[i][2]]
        combinations == Product(values)
    IN [i \in 1..Len(combinations) |-> DictZip(keys, combinations[i])]

RECURSIVE IterLoop(_, _)
\* utils.py:81-83, the loop appending every entry of the content
IterLoop(result, rest) ==
    IF rest = <<>> THEN result
    ELSE IterLoop(Append(result, Head(rest)), Tail(rest))

RECURSIVE IterLoopPrepending(_, _)
\* IterLoop inserting every entry at the front of the result
IterLoopPrepending(result, rest) ==
    IF rest = <<>> THEN result
    ELSE IterLoopPrepending(<<Head(rest)>> \o result, Tail(rest))

\* ExtractIter with the entries collected in reverse
ExtractIterReversed(content) == IterLoopPrepending(<<>>, content)

\* utils.py:80-83, the iter branch
ExtractIter(content) == IterLoop(<<>>, content)

ExtractInit ==
    /\ ex_mode \in Modes
    /\ ex_content \in (IF Lower(ex_mode) = "union" THEN UnionContents ELSE IterContents)
    /\ ex_out = <<>>
    /\ ex_pc = "call"
    /\ ex_compiled = 0
    /\ ex_runs = 0

\* Extract taking the content of an unknown mode as a list of variable maps
ExtractLenient ==
    /\ ex_pc = "call"
    /\ IF Lower(ex_mode) = "union"
       THEN ex_out' = ExtractUnion(ex_content) /\ ex_pc' = "returned"
       ELSE ex_out' = ExtractIter(ex_content) /\ ex_pc' = "returned"
    /\ UNCHANGED <<ex_mode, ex_content, ex_compiled, ex_runs>>
    /\ UNCHANGED <<runVars, agVars, matVars, rpVars, evVars, scVars, btVars, bkVars>>

\* utils.py:50-91, extract(data, "tasks") called by load_conf (config.py:24-26);
\* NotImplementedError leaves load_conf and its caller generate_logic
Extract ==
    /\ ex_pc = "call"
    /\ IF Lower(ex_mode) = "union"
       THEN ex_out' = ExtractUnion(ex_content) /\ ex_pc' = "returned"
       ELSE IF Lower(ex_mode) = "iter"
       THEN ex_out' = ExtractIter(ex_content) /\ ex_pc' = "returned"
       ELSE ex_out' = <<>> /\ ex_pc' = "raised"
    /\ UNCHANGED <<ex_mode, ex_content, ex_compiled, ex_runs>>
    /\ UNCHANGED <<runVars, agVars, matVars, rpVars, evVars, scVars, btVars, bkVars>>

\* config.py:27, load_conf stores the configuration built from extract's results
LoadConf ==
    /\ ex_pc = "returned"
    /\ ex_pc' = "loaded"
    /\ UNCHANGED <<ex_mode, ex_content, ex_out, ex_compiled, ex_runs>>
    /\ UNCHANGED <<runVars, agVars, matVars, rpVars, evVars, scVars, btVars, bkVars>>

\* cli.py:26-29 and run.py:23-30, run() compiles one graph per variable map
GenCompile ==
    /\ ex_pc = "loaded"
    /\ ex_pc' = "compiled"
    /\ ex_compiled' = Len(ex_out)
    /\ UNCHANGED <<ex_mode, ex_content, ex_out, ex_runs>>
    /\ UNCHANGED <<runVars, agVars, matVars, rpVars, evVars, scVars, btVars, bkVars>>

\* run.py:45-49, run() hands one arun per compiled graph to gather
GenStart ==
    /\ ex_pc = "compiled"
    /\ ex_pc' = "running"
    /\ ex_runs' = ex_compiled
    /\ UNCHANGED <<ex_mode, ex_content, ex_out, ex_compiled>>
    /\ UNCHANGED <<runVars, agVars, matVars, rpVars, evVars, scVars, btVars, bkVars>>

ExtractNext ==
    \/ Extract
    \/ LoadConf
    \/ GenCompile
    \/ GenStart

InitExtract == RunIdle /\ AgIdle /\ MatIdle /\ ExtractInit /\ RpIdle /\ EvIdle /\ ScIdle /\ BtIdle /\ BkIdle

SpecExtract == InitExtract /\ [][ExtractNext]_vars

RECURSIVE ProdLen(_, _)
\* the product of the lengths of the value lists of dimensions j..Len(content)
ProdLen(content, j) ==
    IF j > Len(content) THEN 1 ELSE Len(content[j][2]) * ProdLen(content, j + 1)

\* the position in dimension j's value list used by the idx-th map when the
\* last dimension varies fastest
PositionAt(content, idx, j) ==
    (((idx - 1) \div ProdLen(content, j + 1)) % Len(content[j][2])) + 1

\* the ways to choose one position in every dimension's value list
Choices(content) ==
    {f \in [1..Len(content) -> 1..MaxVals + 1] :
        \A j \in 1..Len(content) : f[j] <= Len(content[j][2])}

\* C10: for a union task extract returns the Cartesian product: as many maps as
\* the product of the list lengths, every choice of one position per dimension
\* exactly once, each map's keys the dimensions in declared order, the last
\* dimension varying fastest; content without dimensions gives one empty map.
UnionIsProduct ==
    (ex_pc \notin {"call", "raised"} /\ Lower(ex_mode) = "union") =>
        /\ Len(ex_out) = ProdLen(ex_content, 1)
        /\ ex_content = <<>> => ex_out = << <<>> >>
        /\ \A idx \in 1..Len(ex_out) :
             /\ Len(ex_out[idx]) = Len(ex_content)
             /\ \A j \in 1..Len(ex_content) :
                  /\ ex_out[idx][j][1] = ex_content[j][1]
                  /\ ex_out[idx][j][2] =
                        ex_content[j][2][PositionAt(ex_content, idx, j)]
        /\ \A f \in Choices(ex_content) :
             Cardinality({idx \in 1..Len(ex_out) :
                 \A j \in 1..Len(ex_content) : PositionAt(ex_content, idx, j) = f[j]}) = 1

\* C10 witness: a union task of two dimensions with two different values each
\* has been expanded.
UnionTwoByTwo ==
    /\ ex_pc = "returned"
    /\ Lower(ex_mode) = "union"
    /\ Len(ex_content) = 2
    /\ \A j \in 1..2 : Len(ex_content[j][2]) = 2 /\ ex_content[j][2][1] # ex_content[j][2][2]
    /\ Len(ex_out) = 4

\* ------------------------------------------------------------------------
\* Properties of the batch runner (specification Spec)
\* ------------------------------------------------------------------------
RunEnded == pc \in {"returned", "raised", "torn_down"}

IsPrefix(s, t) == Len(s) <= Len(t) /\ \A k \in 1..Len(s) : s[k] = t[k]

\* C1: at every moment the number of runs inside their graph execution is at
\* most workers_num.
AdmissionCeiling == Cardinality(Running) <= workers_num

\* C1 witness: the ceiling is reached while another run waits for a permit.
AdmissionCeilingReached ==
    /\ Cardinality(Running) = workers_num
    /\ Waiting # {}

\* C2: when a run of the batch has failed, no sibling run is cancelled: each
\* still executes to its own END or its own failure.
SiblingsNeverCancelled == (Failed # {}) => (Cancelled = {})

\* C3: run() creates one graph execution per variant and ends only after every
\* one of them has finished in success or failure.
RunEndsAfterAllFinished ==
    RunEnded =>
        /\ DOMAIN tasks = 1..ntasks
        /\ \A i \in DOMAIN tasks : tasks[i].g.variant = i
        /\ \A i \in DOMAIN tasks : tasks[i].st \in {"done", "failed"}

\* C4: whenever run() has finished every registered storage handle is closed,
\* and no handle is closed while a run of the batch is still executing.
HandlesClosedAtEnd ==
    /\ RunEnded => \A c \in DOMAIN conns : ~conns[c].open
    /\ (\E c \in DOMAIN conns : ~conns[c].open) => (Running = {} /\ Waiting = {})

\* the (storage handle, thread identifier) pair under which task i persists
StreamOf(i) == <<tasks[i].g.handle, ThreadId>>

\* message m was produced in run i: its start prompt or a reply of its nodes
ProducedIn(m, i) == m.content[2] = i

AppendOnly ==
    [][\A i \in DOMAIN tasks : i \in DOMAIN tasks' =>
         /\ IsPrefix(tasks[i].msgs, tasks'[i].msgs)
         /\ tasks'[i].steps # tasks[i].steps =>
              /\ tasks'[i].steps = tasks[i].steps + 1
              /\ Len(tasks'[i].msgs) = Len(tasks[i].msgs) + 1
              /\ tasks'[i].msgs[Len(tasks'[i].msgs)].name = tasks[i].node
              /\ Len(tasks'[i].input) = 1 + Len(tasks[i].msgs)
              /\ \A k \in 1..Len(tasks[i].msgs) :
                    tasks'[i].input[1 + k].content = tasks[i].msgs[k].content
         /\ (tasks'[i].steps = tasks[i].steps /\ tasks[i].st # "waiting") =>
              tasks'[i].msgs = tasks[i].msgs
      ]_vars

\* C7 witness: a run whose second node has executed on the first node's message.
SecondNodeRan ==
    \E i \in DOMAIN tasks :
        /\ tasks[i].steps >= 2
        /\ Len(tasks[i].msgs) = 3
        /\ tasks[i].msgs[2].name = "a"
        /\ tasks[i].msgs[3].name = "b"

\* C11: for an iter task extract returns the variable maps of the content
\* unchanged and in list order: as many maps as the content has entries, the
\* i-th map being the i-th entry.
IterIsContent ==
    (ex_pc \notin {"call", "raised"} /\ Lower(ex_mode) = "iter") =>
        /\ Len(ex_out) = Len(ex_content)
        /\ \A i \in 1..Len(ex_content) : ex_out[i] = ex_content[i]

\* C11 witness: an iter task of two different variable maps has been expanded.
IterTwoEntries ==
    /\ ex_pc = "returned"
    /\ Lower(ex_mode) = "iter"
    /\ Len(ex_content) = 2
    /\ ex_content[1] # ex_content[2]

KnownMode == Lower(ex_mode) \in {"union", "iter"}

\* C12: a task block whose mode is neither union nor iter (in any case of the
\* letters) makes configuration loading fail: extract raises, no configuration
\* is loaded, no graph is compiled and no run is started.
UnknownModeAborts ==
    ~KnownMode =>
        /\ ex_pc \in {"call", "raised"}
        /\ ex_out = <<>>
        /\ ex_compiled = 0
        /\ ex_runs = 0

\* C12 witness: loading a task block of an unknown mode with a non-empty
\* content has raised.
UnknownModeRaised ==
    /\ ~KnownMode
    /\ ex_pc = "raised"
    /\ ex_content # <<>>

\* the keys of the variable map m
KeysOf(m) == {m[i][1] : i \in 1..Len(m)}

\* C13: replace_prompt returns, for every prompt given (dict or Prompt,
\* single or in a list), a prompt of the same role whose content is the given
\* content with every {k} of every key k of the map replaced by the map's
\* value and every other placeholder left as it is, and it raises no error.
EveryKeyReplaced ==
    /\ rp_pc # "raised"
    /\ rp_pc \in {"returned", "again"} =>
        /\ Len(rp_out) = Len(rp_prompt.ps)
        /\ \A i \in 1..Len(rp_out) :
            /\ rp_out[i].role = rp_prompt.ps[i].role
            /\ rp_out[i].content = Substituted(rp_prompt.ps[i].content, rp_map)

\* C14: replace_prompt with an empty map returns prompts of the same role and
\* the same content as the ones given, in dict and in Prompt form.
EmptyMapIsIdentity ==
    (rp_pc \in {"returned", "again"} /\ rp_map = <<>>) =>
        /\ Len(rp_out) = Len(rp_prompt.ps)
        /\ \A i \in 1..Len(rp_out) :
            /\ rp_out[i].role = rp_prompt.ps[i].role
            /\ rp_out[i].content = rp_prompt.ps[i].content

\* C15: applying replace_prompt to its own result with the same map returns
\* that result again, and the result holds no placeholder of a key of the map.
TemplatingIdempotent ==
    /\ rp_pc = "again" => rp_again = rp_out
    /\ rp_pc \in {"returned", "again"} =>
        \A i \in 1..Len(rp_out) : \A j \in 1..Len(rp_out[i].content) :
            \A k \in KeysOf(rp_map) : rp_out[i].content[j] # Ph(k)

\* the agents a1, ..., an of the direction list START -> a1, ..., an -> END
LinearChain(dirs) == [k \in 1..(Len(dirs) - 1) |-> dirs[k].dst]

IsLinear(dirs) ==
    /\ Len(dirs) >= 2
    /\ \A k \in 1..Len(dirs) : ~dirs[k].router
    /\ dirs[1].src = START
    /\ dirs[Len(dirs)].dst = END
    /\ \A k \in 1..(Len(dirs) - 1) :
          /\ dirs[k].dst = dirs[k + 1].src
          /\ dirs[k].dst \in AgentIds
    /\ \A j, k \in 1..(Len(dirs) - 1) : j # k => dirs[j].dst # dirs[k].dst

\* the nodes run i has executed so far, in order: the authors of the messages
\* that follow its start prompt
Executed(i) == [k \in 1..(Len(tasks[i].msgs) - 1) |-> tasks[i].msgs[k + 1].name]

\* C16: with a linear direction list START -> a1, ..., an -> END over
\* distinct agents a run executes a1, ..., an in that order, once each: what it
\* has executed is always a beginning of that chain, the node it is at is the
\* next of the chain, it reaches END exactly after an, and an agent of the
\* agent map that no edge names never executes.
LinearRunsInOrder ==
    IsLinear(directions) =>
        \A i \in DOMAIN tasks :
            /\ IsPrefix(Executed(i), LinearChain(directions))
            /\ tasks[i].st = "running" =>
                  tasks[i].node = LinearChain(directions)[Len(Executed(i)) + 1]
            /\ tasks[i].st = "done" <=>
                  (Executed(i) = LinearChain(directions) /\ tasks[i].node = END)
            /\ \A c \in AgentIds \ Range(LinearChain(directions)) :
                  c \notin Range(Executed(i))

\* C16 witness: a run over the linear list START -> a -> b -> END has reached
\* END, agent c of the agent map being on no edge.
LinearRunDone ==
    /\ IsLinear(directions)
    /\ "c" \in AgentIds \ Range(LinearChain(directions))
    /\ \E i \in DOMAIN tasks :
          tasks[i].st = "done" /\ Executed(i) = <<"a", "b">>

\* a non-router edge of the direction list names a node that is neither a
\* sentinel nor an agent of the agent map
BadEdge ==
    \E k \in 1..Len(directions) :
        /\ ~directions[k].router
        /\ \/ directions[k].src \notin AgentIds \cup {START, END}
           \/ directions[k].dst \notin AgentIds \cup {START, END}

\* C18 as stated: with such an edge the graph build fails, whatever the batch:
\* run() never gets past its build loop and no run of the batch is created.
BadEdgeFailsBuild ==
    BadEdge =>
        /\ pc \in {"build", "build_failed"}
        /\ tasks = <<>>

\* C18, amended: with such an edge and at least one task variant the build of
\* the first graph fails: run() never gets past its build loop, no graph is
\* compiled, no storage is registered and no run of the batch is created; with
\* no variant at all nothing is built and no run is created either.
BadEdgeFailsFirstBuild ==
    BadEdge =>
        /\ ntasks > 0 => pc \in {"build", "build_failed"}
        /\ agents = <<>>
        /\ conns = <<>>
        /\ tasks = <<>>

\* C18 witness: the build of a batch of two variants has failed on an edge
\* that starts at an unknown node.
UnknownSrcBuildFailed ==
    /\ pc = "build_failed"
    /\ ntasks = 2
    /\ directions = UnknownSrc

\* the runs that ended in a routing error
RoutingFailed == {i \in DOMAIN tasks : tasks[i].st = "failed" /\ tasks[i].why = "routing"}

\* C17: when a node with a conditional edge has executed, the run goes on at
\* path_map[label] for the label its classifier returned (END ending the run,
\* the recursion limit permitting), or, the label being no key of the path
\* map, the run ends in a routing error; and a routing error of one run
\* leaves every other run unaffected: none is cancelled.
RoutedByPathMap ==
    [][/\ \A i \in DOMAIN tasks :
            (/\ i \in DOMAIN tasks'
             /\ tasks'[i].steps = tasks[i].steps + 1
             /\ HasBranch(tasks[i].g.graph, tasks[i].node)) =>
                \/ \E l \in DOMAIN PathMap :
                      \/ PathMap[l] = END /\ tasks'[i].st = "done"
                      \/ /\ PathMap[l] # END
                         /\ \/ tasks'[i].st = "running" /\ tasks'[i].node = PathMap[l]
                            \/ tasks'[i].st = "failed" /\ tasks'[i].why = "recursion"
                \/ tasks'[i].st = "failed" /\ tasks'[i].why = "routing"
       /\ (\E i \in DOMAIN tasks' :
              tasks'[i].st = "failed" /\ tasks'[i].why = "routing") =>
            \A j \in DOMAIN tasks' : tasks'[j].st # "cancelled"
      ]_vars

\* the runs stopped by the recursion limit
DepthFailed == {i \in DOMAIN tasks : tasks[i].st = "failed" /\ tasks[i].why = "recursion"}

\* C19: no run executes more than recursion_limit nodes; a run that has not
\* reached END by then is stopped as a failed, incomplete run of its own, and
\* that is no crash of the batch: run() does not raise and no sibling run is
\* cancelled.
DepthLimitIsolated ==
    /\ \A i \in DOMAIN tasks : tasks[i].steps <= RecursionLimit
    /\ \A i \in DOMAIN tasks :
          (tasks[i].steps = RecursionLimit /\ tasks[i].st # "done") => i \in DepthFailed
    /\ DepthFailed # {} =>
          /\ pc \notin {"raised", "torn_down"}
          /\ Cancelled = {}

\* the log persisted for run i under its storage handle and thread identifier
Persisted(i) == store[tasks[i].g.handle][ThreadId]

CompiledBeforeAdmitted ==
    /\ [](tasks # <<>> => Len(agents) = ntasks)
    /\ [][agents' # agents =>
            /\ tasks = <<>> /\ tasks' = <<>>
            /\ sem = workers_num /\ sem' = workers_num]_vars

\* C21 witness: three graphs are compiled and the first run has been admitted.
AllCompiledThenAdmitted ==
    /\ Len(agents) = 3
    /\ Cardinality(Running) = 1
    /\ Cardinality(Waiting) = 2

\* a run was admitted if it is past waiting with its start prompt in its state
Admitted(i) == tasks[i].msgs # <<>>

\* C29: the permits held are as many as the runs executing, a run that ended
\* in success or by raising holds none, and no waiting run is denied
\* admission: none ends without having been admitted.
PermitsFollowRuns ==
    /\ workers_num - sem = Cardinality(Running)
    /\ \A i \in DOMAIN tasks : tasks[i].st \notin {"waiting", "running"} => Admitted(i)

\* the marker pairs of response r: <<i, j>> with a start marker at i, an end
\* marker at j > i and no marker between them
MarkerPairs(r) ==
    {<<i, j>> \in PositionsOf(r, StartMark) \X PositionsOf(r, EndMark) :
        /\ i < j
        /\ \A k \in (i + 1)..(j - 1) : r[k] \notin {StartMark, EndMark}}

\* the text inside the last marker pair of r
LastPairText(r) ==
    LET last == CHOOSE q \in MarkerPairs(r) : \A o \in MarkerPairs(r) : o[2] <= q[2]
    IN SubSeq(r, last[1] + 1, last[2] - 1)

\* C22: in the prompt-contract strategy a response holding several marker
\* pairs, the last one around a JSON document, yields the decoding of the text
\* inside that last pair, whatever precedes it.
LastPairDecoded ==
    (/\ ev_mode = "prompt"
     /\ ev_pc # "call"
     /\ Cardinality(MarkerPairs(ev_resp)) >= 2
     /\ JsonLoads(LastPairText(ev_resp)) # <<>>)
    => /\ ev_pc = "returned"
       /\ ev_out = JsonLoads(LastPairText(ev_resp))

\* C23: in the prompt-contract strategy a response with exactly one start
\* marker and one end marker after it, a JSON document between them, yields
\* that document whatever text surrounds the pair; a response in which no
\* start marker is followed by an end marker raises and returns no record.
SinglePairOrFailure ==
    /\ (/\ ev_mode = "prompt"
        /\ ev_pc # "call"
        /\ Cardinality(PositionsOf(ev_resp, StartMark)) = 1
        /\ Cardinality(PositionsOf(ev_resp, EndMark)) = 1
        /\ Cardinality(MarkerPairs(ev_resp)) = 1
        /\ JsonLoads(LastPairText(ev_resp)) # <<>>)
       => /\ ev_pc = "returned"
          /\ ev_out = JsonLoads(LastPairText(ev_resp))
    /\ (/\ ev_mode = "prompt"
        /\ ev_pc # "call"
        /\ MarkerPairs(ev_resp) = {})
       => /\ ev_pc = "raised"
          /\ ev_out = <<>>

\* C23 witness: a pair around a JSON document, text before and after it, has
\* been decoded.
SinglePairDecoded ==
    /\ ev_mode = "prompt"
    /\ ev_pc = "returned"
    /\ Len(ev_resp) >= 4
    /\ ev_resp[1] = "text"
    /\ Cardinality(MarkerPairs(ev_resp)) = 1
    /\ Cardinality(PositionsOf(ev_resp, StartMark)) = 1
    /\ Cardinality(PositionsOf(ev_resp, EndMark)) = 1

RECURSIVE SumOver(_, _)
\* the sum of f[i] over the set S of integers
SumOver(f, S) ==
    IF S = {} THEN 0
    ELSE LET i == CHOOSE x \in S : TRUE IN f[i] + SumOver(f, S \ {i})

\* the sum of the metric values of record r
RowSum(r) == SumOver([j \in 1..Len(r) |-> r[j][2]], 1..Len(r))

\* the sum of metric j over all the records
ColumnSum(j) == SumOver([i \in 1..sc_n |-> sc_results[i][j][2]], 1..sc_n)

AggregationNeverFails ==
    /\ sc_pc # "raised"
    /\ sc_pc = "written" =>
          /\ Len(sc_csv) = 1 + sc_n + (IF sc_avg THEN 1 ELSE 0)
          /\ \A i \in 1..sc_n : sc_csv[i + 1][1] = TaskId(i)

\* C28: the i-th data line of the score file carries the task id of the i-th
\* file and the metric values of the record that file's evaluation returned,
\* in whatever order the evaluations completed and whichever of them failed.
RowsLabelledByTask ==
    sc_pc = "written" =>
        \A i \in 1..sc_n :
            /\ sc_csv[i + 1][1] = TaskId(i)
            /\ sc_evals[i] = sc_results[i]
            /\ \A j \in 1..Len(sc_results[i]) :
                  sc_csv[i + 1][j + 1] = Str(sc_results[i][j][2])
            /\ Len(sc_csv[i + 1]) = 1 + Len(sc_results[i]) + (IF sc_avg THEN 1 ELSE 0)

\* C28 witness: the second evaluation completed before the first, the first
\* failed, and the two lines are written.
RowsAfterReversedCompletion ==
    /\ sc_pc = "written"
    /\ sc_n = 2
    /\ sc_done[1][1] = 2
    /\ sc_results[1] = EmptyRecord
    /\ sc_results[2] # EmptyRecord

\* C24: when the evaluation of a transcript fails (no markers, malformed
\* JSON, or an error of the model call), its eval_task returns the empty
\* record and writes no score file, and the batch is not aborted: gather
\* returns and the table is written over all the transcripts.
EvalFailureContained ==
    /\ \A i \in DOMAIN bt_tasks :
          (bt_outcome[i] \in Failures /\ bt_tasks[i].st # "pending") =>
              /\ bt_tasks[i].st = "returned"
              /\ bt_tasks[i].ret = NoRecord
              /\ i \notin bt_files
    /\ (\E i \in DOMAIN bt_tasks : bt_outcome[i] \in Failures) => bt_pc # "aborted"

\* C27: a chat call sends at most max_retries requests; after a response it
\* sends no further request and returns; it has slept 2^k seconds after its
\* k-th failed request (k = 0, 1, ...) but not after the max_retries-th; and it
\* raises the request error exactly when max_retries requests were sent and
\* all failed, which with max_retries = 0 is without any request.
RetriesBounded ==
    /\ [](/\ bk_sent <= bk_max
          /\ bk_failed \in {bk_sent, bk_sent - 1}
          /\ bk_pc = "loop" => bk_failed = bk_sent
          /\ bk_pc = "done" => bk_failed = bk_sent - 1
          /\ Len(bk_sleeps) = (IF bk_failed = bk_max /\ bk_max > 0
                               THEN bk_max - 1 ELSE bk_failed)
          /\ \A k \in 1..Len(bk_sleeps) : bk_sleeps[k] = 2 ^ (k - 1)
          /\ bk_out = "request_error" => (bk_sent = bk_max /\ bk_failed = bk_max)
          /\ bk_out = "returned" => bk_failed = bk_sent - 1)
    /\ [][/\ bk_pc = "done" => (bk_pc' = "idle" /\ bk_out' = "returned" /\ bk_sent' = bk_sent)
          /\ (bk_pc = "loop" /\ bk_failed = bk_max) =>
                (bk_pc' = "idle" /\ bk_out' = "request_error" /\ bk_sent' = bk_sent)
         ]_vars

\* C27 witness: a chat call with max_retries = 3 has returned the response to
\* its third request, having slept 1 and 2 seconds.
ThirdAttemptReturned ==
    /\ bk_max = 3
    /\ bk_out = "returned"
    /\ bk_sent = 3
    /\ bk_sleeps = <<1, 2>>

\* C30: chat requests are sent only with the initialized flag true; a chat
\* call on an uninitialized backend whose initialization fails raises having
\* sent no request and leaves the flag false; and no step of a chat call,
\* whether its requests succeed or all fail, takes a true flag back.
InitializedGuardsRequests ==
    /\ [](/\ (bk_op = "chat" /\ bk_sent > 0) => bk_init
          /\ bk_pc \in {"loop", "done"} => bk_init
          /\ bk_out = "init_error" => (bk_sent = 0 /\ (bk_op = "chat" => ~bk_init)))
    /\ [][/\ bk_sent' > bk_sent => (bk_init /\ bk_init')
          /\ (bk_init /\ bk_op' = "chat") => bk_init'
          /\ (~bk_init /\ bk_op' = "chat" /\ bk_calls' > bk_calls) =>
                \/ bk_init' /\ bk_pc' = "loop"
                \/ ~bk_init' /\ bk_out' = "init_error" /\ bk_pc' = "idle" /\ bk_sent' = 0
         ]_vars

\* C30 witness: a second chat call on an initialized backend ended with all
\* its requests failed, and the flag is still true.
FlagTrueAfterFailedChat ==
    /\ bk_calls >= 2
    /\ bk_op = "chat"
    /\ bk_out = "request_error"
    /\ bk_sent = 2
    /\ bk_init

====
